---- MODULE Spec2Model ----
(***************************************************************************)
(* cargo-routes (src/src/main.rs): the transitive dependency graph builders *)
(* (test mode over a pre-loaded adjacency map, remote mode over the         *)
(* crates.io API with two caches) and the ASCII tree printer, as main runs  *)
(* them.  One loop iteration of a builder is one step.  load_test_graph is  *)
(* specified apart (LoadSpec), and so is the printer call by call over any  *)
(* GraphStore (RenderSpec).                                                 *)
(***************************************************************************)
EXTENDS Integers, Sequences, FiniteSets, TLC

VARIABLES
  test_repo_mode,    \* config.test_repo_mode: "test" or "remote"
  name,              \* config.name, the root package
  version,           \* config.version
  max_depth,         \* config.max_depth: {} is None, {d} is Some(d)
  graph_raw,         \* test mode: the map load_test_graph returned
  registry,          \* remote mode: what crates.io lists for each crate
  graph,             \* the GraphStore under construction
  visited,           \* the builder's visited set
  stack,             \* the builder's work stack, top is the last element
  latest_cache,      \* remote mode: crate -> latest version
  deps_cache,        \* remote mode: <<crate, version>> -> dependency names
  pc,                \* where main is
  stdout,            \* lines printed with println!
  stderr,            \* lines printed with eprintln!
  exit_code,         \* {} while running, {c} once the process has exited
  resolved,          \* history: per package, number of dependency resolutions
  inserted,          \* history: per package, number of graph.insert calls
  deps_requests,     \* history: per package, dependency-listing GETs sent
  versions_requests, \* history: per package, version-listing GETs sent
  lookup_errors,     \* history: per package, version lookups that returned Err
  raw,               \* load_test_graph: the lines of the test file
  seen_set,          \* the printer's seen set
  frames             \* the printer's pending calls, innermost last

config == <<test_repo_mode, name, version, max_depth, raw, graph_raw, registry>>
build == <<graph, visited, stack, latest_cache, deps_cache>>
output == <<stdout, stderr, exit_code>>
history == <<resolved, inserted, deps_requests, versions_requests, lookup_errors>>
render == <<seen_set, frames>>
vars == <<config, build, pc, output, history, render>>

(***************************************************************************)
(* Bounds of the model.                                                     *)
(***************************************************************************)
\* package names that occur in a test-mode adjacency file
Packages == {"A", "B", "C", "D"}
PackageOrder == <<"A", "B", "C", "D">>
\* crate names that occur in the modelled registry
Crates == {"A", "B", "C"}
CrateOrder == <<"A", "B", "C">>
\* the root the configuration names; the builders and the printer only
\* compare names, so a run from another root is a run from this one renamed
Roots == {"A"}
\* packages that may have no line in the adjacency file: the root, and one
\* of the others
MaybeAbsent == {"A", "D"}
\* total number of dependency names in the adjacency file
MaxEdges == 4
\* total number of dependency records the registry lists
MaxRegistryEdges == 3
\* total number of dependency names in the adjacency file of the runs of
\* the test mode alone
MaxTestEdges == 5
\* largest Some(d) of config.max_depth
MaxDepth == 2
\* total number of dependency names in the source data of the runs checked
\* for termination
MaxLiveEdges == 2

\* names that occur in a GraphStore handed to the printer on its own
Nodes == {"A", "B", "C"}
NodeOrder == <<"A", "B", "C">>
\* total number of child names in such a GraphStore
MaxStoredEdges == 4
\* largest Some(d) of the printer's max_depth
MaxRenderDepth == 2

\* characters that occur in a test file: white space, the colon, a letter
Chars == {" ", ":", "A"}
\* number of lines of a test file
MaxLines == 2
\* number of characters of a line
MaxLineLen == 3

Versions == {"1", "2"}
Kinds == {"normal", "dev"}

(***************************************************************************)
(* Sequence helpers.                                                        *)
(***************************************************************************)
RECURSIVE SumOver(_, _)
SumOver(f, S) ==
  IF S = {} THEN 0
  ELSE LET x == CHOOSE y \in S : TRUE IN f[x] + SumOver(f, S \ {x})

\* position of element x in the sequence order
IndexOf(order, x) == CHOOSE i \in 1..Len(order) : order[i] = x

\* number of list slots taken by the keys before position i of order
RECURSIVE OffsetOf(_, _, _)
OffsetOf(lens, order, i) ==
  IF i = 1 THEN 0
  ELSE OffsetOf(lens, order, i - 1)
       + (IF order[i - 1] \in DOMAIN lens THEN lens[order[i - 1]] ELSE 0)

\* the map with the given list lengths whose lists are cut from flat
CutMap(lens, order, flat) ==
  [p \in DOMAIN lens |->
     [j \in 1..lens[p] |-> flat[OffsetOf(lens, order, IndexOf(order, p)) + j]]]

\* the list lengths of a map over keys holding at most max names in all
LengthVectors(keys, max) ==
  { l \in [keys -> 0..max] : SumOver(l, keys) <= max }

\* the first entry of the registry's version list of a crate
registry_latest(pkg) == "2"

ZeroCount == [p \in Packages |-> 0]

\* the state when main calls a builder: the test file holds at most
\* max_edges dependency names, the registry lists at most
\* max_registry_edges dependency records
InitWith(max_edges, max_registry_edges) ==
  /\ test_repo_mode \in {"test", "remote"}
  /\ name \in Roots
  /\ max_depth \in {{}} \cup {{d} : d \in 0..MaxDepth}
  /\ IF test_repo_mode = "test"
     THEN /\ \E keys \in {Packages \ absent : absent \in SUBSET MaybeAbsent} :
               \E lens \in LengthVectors(keys, max_edges) :
                 \E flat \in [1..SumOver(lens, keys) -> Packages] :
                   graph_raw = CutMap(lens, PackageOrder, flat)
          /\ registry = <<>>
          /\ version = "1"
          /\ stack = <<[node |-> name, depth |-> 0]>>
     ELSE /\ graph_raw = <<>>
          /\ \E lens \in LengthVectors(Crates, max_registry_edges) :
               \E flat \in [1..SumOver(lens, Crates) ->
                               [crate_id : Crates, kind : Kinds]] :
                 registry = CutMap(lens, CrateOrder, flat)
          /\ version \in Versions
          /\ stack = <<[node |-> name, ver |-> version, depth |-> 0]>>
  /\ graph = <<>>
  /\ visited = {}
  /\ latest_cache = <<>>
  /\ deps_cache = <<>>
  /\ pc = "build"
  /\ stdout = <<>>
  /\ stderr = <<>>
  /\ exit_code = {}
  /\ resolved = ZeroCount
  /\ inserted = ZeroCount
  /\ deps_requests = ZeroCount
  /\ versions_requests = ZeroCount
  /\ lookup_errors = ZeroCount
  /\ raw = <<>>
  /\ seen_set = {}
  /\ frames = <<>>

Init == InitWith(MaxEdges, MaxRegistryEdges)

(***************************************************************************)
(* build_test_graph                                                         *)
(***************************************************************************)
Top(s) == s[Len(s)]
\* stack.pop(); the variant reads the top and leaves it on the stack
Pop_peek_only(s) == s
Pop(s) == SubSeq(s, 1, Len(s) - 1)

\* for dep in deps { stack.push((dep, depth + 1)) }
push_deps_first_only(s, deps, depth) ==
  IF deps = <<>> THEN s
  ELSE Append(s, [node |-> Head(deps), depth |-> depth + 1])
RECURSIVE push_deps(_, _, _)
push_deps(s, deps, depth) ==
  IF deps = <<>> THEN s
  ELSE push_deps(Append(s, [node |-> Head(deps), depth |-> depth + 1]),
                 Tail(deps), depth)

\* if let Some(max) = max_depth { if depth >= max { continue } }
depth_reached_late(depth) == \E max \in max_depth : depth > max
depth_reached(depth) == \E max \in max_depth : depth >= max

\* graph_raw.get(&node).cloned().unwrap_or_default()
raw_deps_cut_at_bound(node) ==
  IF node \in DOMAIN graph_raw /\ ~depth_reached(Top(stack).depth)
  THEN graph_raw[node] ELSE <<>>
raw_deps(node) == IF node \in DOMAIN graph_raw THEN graph_raw[node] ELSE <<>>

\* visited.insert(node.clone())
mark_visited_forgotten(node) == visited
mark_visited(node) == visited \cup {node}

\* a popped entry whose node is already visited: continue
BuildTestSkip ==
  /\ pc = "build" /\ test_repo_mode = "test"
  /\ stack # <<>>
  /\ Top(stack).node \in visited
  /\ stack' = Pop(stack)
  /\ UNCHANGED <<config, render, graph, visited, latest_cache, deps_cache, pc, output, history>>

\* a popped entry whose node is new: record it and push its dependencies
BuildTestExpand ==
  /\ pc = "build" /\ test_repo_mode = "test"
  /\ stack # <<>>
  /\ Top(stack).node \notin visited
  /\ LET node == Top(stack).node
         depth == Top(stack).depth
         deps == raw_deps(node)
     IN /\ visited' = mark_visited(node)
        /\ resolved' = [resolved EXCEPT ![node] = @ + 1]
        /\ graph' = (node :> deps) @@ graph
        /\ inserted' = [inserted EXCEPT ![node] = @ + 1]
        /\ stack' = IF depth_reached(depth) THEN Pop(stack)
                    ELSE push_deps(Pop(stack), deps, depth)
  /\ UNCHANGED <<config, render, latest_cache, deps_cache, pc, output,
                 deps_requests, versions_requests, lookup_errors>>

\* the stack is empty: the loop ends and the graph is returned
BuildTestReturn ==
  /\ pc = "build" /\ test_repo_mode = "test"
  /\ stack = <<>>
  /\ pc' = "print"
  /\ UNCHANGED <<config, render, build, output, history>>

(***************************************************************************)
(* The two registry operations.  ok is what the network does with a request *)
(* that is sent: send(), the status check and the JSON decoding each return *)
(* Err through the same exit, so one flag stands for the three.             *)
(***************************************************************************)
\* .filter(|dep| dep.kind.as_deref() != Some("dev")).map(|d| d.crate_id)
RECURSIVE dep_names(_)
dep_names(dependencies) ==
  IF dependencies = <<>> THEN <<>>
  ELSE IF Head(dependencies).kind # "dev"
       THEN <<Head(dependencies).crate_id>> \o dep_names(Tail(dependencies))
       ELSE dep_names(Tail(dependencies))

\* result: is_ok, the names, the cache afterwards, whether a GET was sent;
\* the key "pkg:version" is the pair, crate names holding no colon
\* (the variant never writes the cache)
fetch_dependencies_never_stored(pkg, ver, cache, ok) ==
  LET key == <<pkg, ver>> IN
  IF key \in DOMAIN cache
  THEN [is_ok |-> TRUE, deps |-> cache[key], cache |-> cache, sent |-> FALSE]
  ELSE IF ~ok
       THEN [is_ok |-> FALSE, deps |-> <<>>, cache |-> cache, sent |-> TRUE]
       ELSE [is_ok |-> TRUE, deps |-> dep_names(registry[pkg]),
             cache |-> cache, sent |-> TRUE]
fetch_dependencies_cached(pkg, ver, cache, ok) ==
  LET key == <<pkg, ver>> IN
  IF key \in DOMAIN cache
  THEN [is_ok |-> TRUE, deps |-> cache[key], cache |-> cache, sent |-> FALSE]
  ELSE IF ~ok
       THEN [is_ok |-> FALSE, deps |-> <<>>, cache |-> cache, sent |-> TRUE]
       ELSE [is_ok |-> TRUE, deps |-> dep_names(registry[pkg]),
             cache |-> (key :> dep_names(registry[pkg])) @@ cache, sent |-> TRUE]

\* result: is_ok, the version, the cache afterwards, whether a GET was sent;
\* an empty version list is one more way for a sent request to end in Err
\* (the variant never reads the cache)
fetch_latest_version_uncached(pkg, cache, ok) ==
  IF ~ok
  THEN [is_ok |-> FALSE, ver |-> "", cache |-> cache, sent |-> TRUE]
  ELSE [is_ok |-> TRUE, ver |-> registry_latest(pkg),
        cache |-> (pkg :> registry_latest(pkg)) @@ cache, sent |-> TRUE]
fetch_latest_version_cached(pkg, cache, ok) ==
  IF pkg \in DOMAIN cache
  THEN [is_ok |-> TRUE, ver |-> cache[pkg], cache |-> cache, sent |-> FALSE]
  ELSE IF ~ok
       THEN [is_ok |-> FALSE, ver |-> "", cache |-> cache, sent |-> TRUE]
       ELSE [is_ok |-> TRUE, ver |-> registry_latest(pkg),
             cache |-> (pkg :> registry_latest(pkg)) @@ cache, sent |-> TRUE]

(***************************************************************************)
(* build_real_graph                                                         *)
(***************************************************************************)
\* The body of
\*   for dep in deps { match fetch_latest_version_cached(..) { Ok => push, Err => warn } }
\* st carries what the loop changes; ok is the network's answer to the
\* request for dep, if one is sent.
\* (the variant pushes the dependency whether or not its version was found)
lookup_step_push_unresolved(st, dep, depth, ok) ==
  LET r == fetch_latest_version_cached(dep, st.latest_cache, ok) IN
  [stack |-> Append(st.stack, [node |-> dep, ver |-> r.ver, depth |-> depth + 1]),
   latest_cache |-> r.cache,
   stderr |-> IF r.is_ok THEN st.stderr
              ELSE Append(st.stderr, [kind |-> "warning", node |-> dep]),
   versions_requests |->
     IF r.sent THEN [st.versions_requests EXCEPT ![dep] = @ + 1]
     ELSE st.versions_requests,
   lookup_errors |->
     IF r.is_ok THEN st.lookup_errors
     ELSE [st.lookup_errors EXCEPT ![dep] = @ + 1]]
lookup_step(st, dep, depth, ok) ==
  LET r == fetch_latest_version_cached(dep, st.latest_cache, ok) IN
  [stack |-> IF r.is_ok
             THEN Append(st.stack, [node |-> dep, ver |-> r.ver, depth |-> depth + 1])
             ELSE st.stack,
   latest_cache |-> r.cache,
   stderr |-> IF r.is_ok THEN st.stderr
              ELSE Append(st.stderr, [kind |-> "warning", node |-> dep]),
   versions_requests |->
     IF r.sent THEN [st.versions_requests EXCEPT ![dep] = @ + 1]
     ELSE st.versions_requests,
   lookup_errors |->
     IF r.is_ok THEN st.lookup_errors
     ELSE [st.lookup_errors EXCEPT ![dep] = @ + 1]]

\* The loop from deps[i] on.  s is st, bound by the set constructor so that
\* the state so far is evaluated once per iteration.
\* (the variant leaves the loop at the first Err)
RECURSIVE resolve_and_push_abort_on_err(_, _, _, _, _)
resolve_and_push_abort_on_err(st, deps, i, depth, oks) ==
  IF i > Len(deps) THEN st
  ELSE CHOOSE after \in
         { IF Len(lookup_step(s, deps[i], depth, oks[i]).stderr) > Len(s.stderr)
           THEN lookup_step(s, deps[i], depth, oks[i])
           ELSE resolve_and_push_abort_on_err(
                  lookup_step(s, deps[i], depth, oks[i]), deps, i + 1, depth, oks) :
           s \in {st} } : TRUE
RECURSIVE resolve_and_push(_, _, _, _, _)
resolve_and_push(st, deps, i, depth, oks) ==
  IF i > Len(deps) THEN st
  ELSE CHOOSE after \in
         { resolve_and_push(lookup_step(s, deps[i], depth, oks[i]),
                            deps, i + 1, depth, oks) :
           s \in {st} } : TRUE

\* a popped entry whose node is already visited: continue
BuildRealSkip ==
  /\ pc = "build" /\ test_repo_mode = "remote"
  /\ stack # <<>>
  /\ Top(stack).node \in visited
  /\ stack' = Pop(stack)
  /\ UNCHANGED <<config, render, graph, visited, latest_cache, deps_cache, pc, output, history>>

\* a popped entry whose node is new and whose dependency listing arrives
BuildRealExpand ==
  /\ pc = "build" /\ test_repo_mode = "remote"
  /\ stack # <<>>
  /\ Top(stack).node \notin visited
  /\ LET node == Top(stack).node
         ver == Top(stack).ver
         depth == Top(stack).depth
         f == fetch_dependencies_cached(node, ver, deps_cache, TRUE)
     IN /\ visited' = mark_visited(node)
        /\ resolved' = [resolved EXCEPT ![node] = @ + 1]
        /\ deps_requests' = IF f.sent THEN [deps_requests EXCEPT ![node] = @ + 1]
                            ELSE deps_requests
        /\ deps_cache' = f.cache
        /\ graph' = (node :> f.deps) @@ graph
        /\ inserted' = [inserted EXCEPT ![node] = @ + 1]
        /\ IF depth_reached(depth)
           THEN /\ stack' = Pop(stack)
                /\ UNCHANGED <<latest_cache, stderr, versions_requests, lookup_errors>>
           ELSE \E oks \in [1..Len(f.deps) -> BOOLEAN] :
                  LET st == resolve_and_push(
                              [stack |-> Pop(stack), latest_cache |-> latest_cache,
                               stderr |-> stderr,
                               versions_requests |-> versions_requests,
                               lookup_errors |-> lookup_errors],
                              f.deps, 1, depth, oks)
                  IN /\ stack' = st.stack
                     /\ latest_cache' = st.latest_cache
                     /\ stderr' = st.stderr
                     /\ versions_requests' = st.versions_requests
                     /\ lookup_errors' = st.lookup_errors
  /\ UNCHANGED <<config, render, pc, stdout, exit_code>>

\* a popped entry whose node is new and whose dependency listing fails:
\* the ? operator returns the Err from build_real_graph
BuildRealFail ==
  /\ pc = "build" /\ test_repo_mode = "remote"
  /\ stack # <<>>
  /\ Top(stack).node \notin visited
  /\ LET node == Top(stack).node
         ver == Top(stack).ver
         f == fetch_dependencies_cached(node, ver, deps_cache, FALSE)
     IN /\ ~f.is_ok
        /\ visited' = mark_visited(node)
        /\ resolved' = [resolved EXCEPT ![node] = @ + 1]
        /\ deps_requests' = IF f.sent THEN [deps_requests EXCEPT ![node] = @ + 1]
                            ELSE deps_requests
        /\ deps_cache' = f.cache
        /\ stack' = Pop(stack)
        /\ pc' = "build_err"
  /\ UNCHANGED <<config, render, graph, latest_cache, output,
                 inserted, versions_requests, lookup_errors>>

\* the stack is empty: Ok(())
BuildRealReturn ==
  /\ pc = "build" /\ test_repo_mode = "remote"
  /\ stack = <<>>
  /\ pc' = "print"
  /\ UNCHANGED <<config, render, build, output, history>>

(***************************************************************************)
(* print_ascii_tree: the lines it prints and the seen set it leaves.  A     *)
(* prefix is the sequence of four-column segments it is made of.            *)
(***************************************************************************)
node_line(prefix, last, node) ==
  [kind |-> "node", prefix |-> prefix,
   connector |-> IF last THEN "+-- " ELSE "|-- ", node |-> node]
cycle_line(prefix, node) ==
  [kind |-> "cycle", prefix |-> prefix, connector |-> "    ", node |-> node]
limit_line(prefix, node) ==
  [kind |-> "limit", prefix |-> prefix, connector |-> "    ", node |-> node]

\* r and rest are bound by set constructors so that each recursive call is
\* evaluated once
RECURSIVE print_ascii_tree(_, _, _, _, _, _, _)
RECURSIVE print_children(_, _, _, _, _, _, _)
print_ascii_tree(g, node, prefix, last, seen, current_depth, max) ==
  LET line == node_line(prefix, last, node) IN
  IF node \in seen
  THEN [lines |-> <<line, cycle_line(prefix, node)>>, seen |-> seen]
  ELSE IF \E m \in max : current_depth >= m
       THEN [lines |-> IF node \in DOMAIN g /\ g[node] # <<>>
                       THEN <<line, limit_line(prefix, node)>>
                       ELSE <<line>>,
             seen |-> seen \cup {node}]
       ELSE IF node \in DOMAIN g
            THEN LET new_prefix == Append(prefix, IF last THEN "    " ELSE "|   ")
                 IN CHOOSE printed \in
                      { [lines |-> <<line>> \o r.lines, seen |-> r.seen] :
                        r \in {print_children(g, g[node], 1, new_prefix,
                                              seen \cup {node}, current_depth + 1, max)} } :
                      TRUE
            ELSE [lines |-> <<line>>, seen |-> seen \cup {node}]

\* for (i, child) in children.iter().enumerate(), from index i on
print_children(g, children, i, new_prefix, seen, depth, max) ==
  IF i > Len(children) THEN [lines |-> <<>>, seen |-> seen]
  ELSE LET is_last == (i = Len(children)) IN
       CHOOSE printed \in
         UNION { { [lines |-> r.lines \o rest.lines, seen |-> rest.seen] :
                   rest \in {print_children(g, children, i + 1, new_prefix,
                                            r.seen, depth, max)} } :
                 r \in {print_ascii_tree(g, children[i], new_prefix, is_last,
                                         seen, depth, max)} } :
         TRUE

(***************************************************************************)
(* main after the configuration is read                                     *)
(***************************************************************************)
\* if let Err(e) = build_real_graph(..) { eprintln!(..); process::exit(1) }
\* (the variant reports the error and goes on to print)
MainBuildError_no_exit ==
  /\ pc = "build_err"
  /\ stderr' = Append(stderr, [kind |-> "error", node |-> name])
  /\ pc' = "print"
  /\ UNCHANGED <<config, render, build, stdout, exit_code, history>>
MainBuildError ==
  /\ pc = "build_err"
  /\ stderr' = Append(stderr, [kind |-> "error", node |-> name])
  /\ exit_code' = {1}
  /\ pc' = "exited"
  /\ UNCHANGED <<config, render, build, stdout, history>>

\* the header line, then the tree from the root; main returns
MainPrint ==
  /\ pc = "print"
  /\ stdout' = <<[kind |-> "header", prefix |-> <<>>, connector |-> "", node |-> name]>>
               \o print_ascii_tree(graph, name, <<>>, TRUE, {}, 0, max_depth).lines
  /\ exit_code' = {0}
  /\ pc' = "exited"
  /\ UNCHANGED <<config, render, build, stderr, history>>

Next ==
  \/ BuildTestSkip
  \/ BuildTestExpand
  \/ BuildTestReturn
  \/ BuildRealSkip
  \/ BuildRealExpand
  \/ BuildRealFail
  \/ BuildRealReturn
  \/ MainBuildError
  \/ MainPrint

Spec == Init /\ [][Next]_vars

\* the runs over source data of at most MaxLiveEdges dependency names
LiveInit == InitWith(MaxLiveEdges, MaxLiveEdges)

\* single-threaded and synchronous: the running program always takes its
\* next step
FairSpec == LiveInit /\ [][Next]_vars /\ WF_vars(Next)

\* the runs of the test mode alone, over adjacency files of at most
\* MaxTestEdges dependency names
TestInit == InitWith(MaxTestEdges, 0) /\ test_repo_mode = "test"

TestNext ==
  \/ BuildTestSkip
  \/ BuildTestExpand
  \/ BuildTestReturn
  \/ MainPrint

TestSpec == TestInit /\ [][TestNext]_vars

(***************************************************************************)
(* print_ascii_tree call by call: a frame is one pending call, at 0 before  *)
(* its body has run and at i >= 1 when its loop is about to take child i.   *)
(***************************************************************************)
TopFrame == frames[Len(frames)]
PopFrame == SubSeq(frames, 1, Len(frames) - 1)

\* seen.insert(node.to_string())
\* (the variant does not record the name)
mark_seen_forgotten(s, node) == s
mark_seen(s, node) == s \cup {node}

\* if let Some(max) = max_depth { if current_depth >= max
\* (the variant compares with >)
render_limit_reached_late(current_depth, max) == \E m \in max : current_depth > m
render_limit_reached(current_depth, max) == \E m \in max : current_depth >= m

\* graph.get(node), None read as no children
children_of(g, node) == IF node \in DOMAIN g THEN g[node] ELSE <<>>

\* let is_last = i == children.len() - 1, i counted from 1 here
\* (the variant compares with the length counted from 0)
is_last_off_by_one(i, children) == i = Len(children) - 1
is_last(i, children) == i = Len(children)

\* let new_prefix = if last { prefix + "    " } else { prefix + "|   " }
new_prefix(prefix, last) == Append(prefix, IF last THEN "    " ELSE "|   ")

\* the node is already in seen: its line, the cycle line, return
\* (the variant prints the cycle line and goes on into the body)
PrintSeen_no_return ==
  /\ pc = "render" /\ frames # <<>>
  /\ TopFrame.at = 0
  /\ TopFrame.node \in seen_set
  /\ stdout' = stdout \o <<node_line(TopFrame.prefix, TopFrame.last, TopFrame.node),
                            cycle_line(TopFrame.prefix, TopFrame.node)>>
  /\ frames' = [frames EXCEPT ![Len(frames)].at = 1]
  /\ UNCHANGED <<config, build, pc, stderr, exit_code, history, seen_set>>
PrintSeen ==
  /\ pc = "render" /\ frames # <<>>
  /\ TopFrame.at = 0
  /\ TopFrame.node \in seen_set
  /\ stdout' = stdout \o <<node_line(TopFrame.prefix, TopFrame.last, TopFrame.node),
                            cycle_line(TopFrame.prefix, TopFrame.node)>>
  /\ frames' = PopFrame
  /\ UNCHANGED <<config, build, pc, stderr, exit_code, history, seen_set>>

\* first visit at the depth limit: its line, the placeholder if the node has
\* children, return
PrintTruncated ==
  /\ pc = "render" /\ frames # <<>>
  /\ TopFrame.at = 0
  /\ TopFrame.node \notin seen_set
  /\ render_limit_reached(TopFrame.depth, max_depth)
  /\ seen_set' = mark_seen(seen_set, TopFrame.node)
  /\ stdout' = stdout
                \o <<node_line(TopFrame.prefix, TopFrame.last, TopFrame.node)>>
                \o (IF children_of(graph, TopFrame.node) # <<>>
                    THEN <<limit_line(TopFrame.prefix, TopFrame.node)>> ELSE <<>>)
  /\ frames' = PopFrame
  /\ UNCHANGED <<config, build, pc, stderr, exit_code, history>>

\* first visit above the depth limit: its line, then the loop over its
\* children if the GraphStore has the node, else return
PrintNode ==
  /\ pc = "render" /\ frames # <<>>
  /\ TopFrame.at = 0
  /\ TopFrame.node \notin seen_set
  /\ ~render_limit_reached(TopFrame.depth, max_depth)
  /\ seen_set' = mark_seen(seen_set, TopFrame.node)
  /\ stdout' = Append(stdout, node_line(TopFrame.prefix, TopFrame.last, TopFrame.node))
  /\ frames' = IF TopFrame.node \in DOMAIN graph
                THEN [frames EXCEPT ![Len(frames)].at = 1]
                ELSE PopFrame
  /\ UNCHANGED <<config, build, pc, stderr, exit_code, history>>

\* one iteration of the loop: the recursive call for child number at
PrintChild ==
  /\ pc = "render" /\ frames # <<>>
  /\ TopFrame.at >= 1
  /\ TopFrame.at <= Len(children_of(graph, TopFrame.node))
  /\ LET children == children_of(graph, TopFrame.node)
         i == TopFrame.at
     IN frames' = Append([frames EXCEPT ![Len(frames)].at = i + 1],
                         [node |-> children[i],
                          prefix |-> new_prefix(TopFrame.prefix, TopFrame.last),
                          last |-> is_last(i, children),
                          depth |-> TopFrame.depth + 1,
                          at |-> 0])
  /\ UNCHANGED <<config, build, pc, output, history, seen_set>>

\* the loop is over: the call returns
\* (the variant takes the name out of seen on the way back)
PrintReturn_unmark ==
  /\ pc = "render" /\ frames # <<>>
  /\ TopFrame.at >= 1
  /\ TopFrame.at > Len(children_of(graph, TopFrame.node))
  /\ frames' = PopFrame
  /\ seen_set' = seen_set \ {TopFrame.node}
  /\ UNCHANGED <<config, build, pc, output, history>>
PrintReturn ==
  /\ pc = "render" /\ frames # <<>>
  /\ TopFrame.at >= 1
  /\ TopFrame.at > Len(children_of(graph, TopFrame.node))
  /\ frames' = PopFrame
  /\ UNCHANGED <<config, build, pc, output, history, seen_set>>

\* the outermost call has returned: main ends
MainReturn ==
  /\ pc = "render" /\ frames = <<>>
  /\ exit_code' = {0}
  /\ pc' = "exited"
  /\ UNCHANGED <<config, build, stdout, stderr, history, render>>

\* the state when main calls print_ascii_tree, for any GraphStore of at most
\* max_edges child names: the header is printed, seen is new
RenderInitWith(max_edges) ==
  /\ test_repo_mode = "test"
  /\ name \in Roots
  /\ version = "1"
  /\ max_depth \in {{}} \cup {{d} : d \in 0..MaxRenderDepth}
  /\ raw = <<>>
  /\ graph_raw = <<>>
  /\ registry = <<>>
  /\ \E keys \in SUBSET Nodes :
       \E lens \in LengthVectors(keys, max_edges) :
         \E flat \in [1..SumOver(lens, keys) -> Nodes] :
           graph = CutMap(lens, NodeOrder, flat)
  /\ visited = {}
  /\ stack = <<>>
  /\ latest_cache = <<>>
  /\ deps_cache = <<>>
  /\ pc = "render"
  /\ stdout = <<[kind |-> "header", prefix |-> <<>>, connector |-> "", node |-> name]>>
  /\ stderr = <<>>
  /\ exit_code = {}
  /\ resolved = ZeroCount
  /\ inserted = ZeroCount
  /\ deps_requests = ZeroCount
  /\ versions_requests = ZeroCount
  /\ lookup_errors = ZeroCount
  /\ seen_set = {}
  /\ frames = <<[node |-> name, prefix |-> <<>>, last |-> TRUE, depth |-> 0, at |-> 0]>>

RenderInit == RenderInitWith(MaxStoredEdges)

RenderNext ==
  \/ PrintSeen
  \/ PrintTruncated
  \/ PrintNode
  \/ PrintChild
  \/ PrintReturn
  \/ MainReturn

RenderSpec == RenderInit /\ [][RenderNext]_vars

\* the printer runs in main's only thread: it always takes its next step
FairRenderSpec == RenderInit /\ [][RenderNext]_vars /\ WF_vars(RenderNext)

(***************************************************************************)
(* load_test_graph.  Here a string is the sequence of its characters, and   *)
(* raw is the sequence of the lines raw.lines() yields.                     *)
(***************************************************************************)
BoundedSeq(S, n) == UNION {[1..k -> S] : k \in 0..n}

is_whitespace(c) == c = " "

\* str::trim
RECURSIVE trim_start(_)
trim_start(s) ==
  IF s # <<>> /\ is_whitespace(Head(s)) THEN trim_start(Tail(s)) ELSE s
RECURSIVE trim_end(_)
trim_end(s) ==
  IF s # <<>> /\ is_whitespace(s[Len(s)])
  THEN trim_end(SubSeq(s, 1, Len(s) - 1)) ELSE s
trim(s) == trim_end(trim_start(s))

\* str::split_once(':'): the parts around the first colon, if there is one
split_once(s) ==
  IF \E i \in 1..Len(s) : s[i] = ":"
  THEN LET i == CHOOSE j \in 1..Len(s) :
                  s[j] = ":" /\ \A k \in 1..(j - 1) : s[k] # ":"
       IN [found |-> TRUE, pkg |-> SubSeq(s, 1, i - 1),
           deps |-> SubSeq(s, i + 1, Len(s))]
  ELSE [found |-> FALSE, pkg |-> <<>>, deps |-> <<>>]

\* str::split_whitespace: the maximal runs of other characters, in order
RECURSIVE word_end(_, _)
word_end(s, i) ==
  IF i < Len(s) /\ ~is_whitespace(s[i + 1]) THEN word_end(s, i + 1) ELSE i
RECURSIVE split_whitespace(_)
split_whitespace(s) ==
  LET t == trim_start(s) IN
  IF t = <<>> THEN <<>>
  ELSE <<SubSeq(t, 1, word_end(t, 1))>>
       \o split_whitespace(SubSeq(t, word_end(t, 1) + 1, Len(t)))

\* format!("... {}: {}", lineno + 1, line), lineno counted from 0
\* (the variant cites lineno itself)
format_error_zero_based(lineno, line) ==
  [kind |-> "format", at |-> lineno, line |-> line]
format_error(lineno, line) ==
  [kind |-> "format", at |-> lineno + 1, line |-> line]

\* for (lineno, line) in raw.lines().enumerate(), from lineno on
RECURSIVE load_lines(_, _, _)
load_lines(lines, lineno, g) ==
  IF lineno >= Len(lines) THEN [is_ok |-> TRUE, graph |-> g, err |-> <<>>]
  ELSE LET line == trim(lines[lineno + 1])
           parts == split_once(line)
       IN IF line = <<>> THEN load_lines(lines, lineno + 1, g)
          ELSE IF parts.found
               THEN load_lines(lines, lineno + 1,
                               (trim(parts.pkg) :> split_whitespace(parts.deps)) @@ g)
               ELSE [is_ok |-> FALSE, graph |-> <<>>,
                     err |-> format_error(lineno, line)]

load_test_graph(lines) == load_lines(lines, 0, <<>>)

\* load_test_graph(..) returned Ok: main goes on to build_test_graph
MainLoadOk ==
  /\ pc = "load"
  /\ load_test_graph(raw).is_ok
  /\ graph_raw' = load_test_graph(raw).graph
  /\ stack' = <<[node |-> name, depth |-> 0]>>
  /\ pc' = "build"
  /\ UNCHANGED <<test_repo_mode, name, version, max_depth, raw, registry,
                 graph, visited, latest_cache, deps_cache, output, history, render>>

\* load_test_graph(..) returned Err: unwrap_or_else reports it and exits
MainLoadErr ==
  /\ pc = "load"
  /\ ~load_test_graph(raw).is_ok
  /\ stderr' = Append(stderr, load_test_graph(raw).err)
  /\ exit_code' = {1}
  /\ pc' = "exited"
  /\ UNCHANGED <<config, build, stdout, history, render>>

\* the state when main calls load_test_graph on a file that can be read
LoadInit ==
  /\ test_repo_mode = "test"
  /\ name \in Roots
  /\ version = "1"
  /\ max_depth = {}
  /\ \E n \in 0..MaxLines : raw \in [1..n -> BoundedSeq(Chars, MaxLineLen)]
  /\ graph_raw = <<>>
  /\ registry = <<>>
  /\ graph = <<>>
  /\ visited = {}
  /\ stack = <<>>
  /\ latest_cache = <<>>
  /\ deps_cache = <<>>
  /\ pc = "load"
  /\ stdout = <<>>
  /\ stderr = <<>>
  /\ exit_code = {}
  /\ resolved = ZeroCount
  /\ inserted = ZeroCount
  /\ deps_requests = ZeroCount
  /\ versions_requests = ZeroCount
  /\ lookup_errors = ZeroCount
  /\ seen_set = {}
  /\ frames = <<>>

LoadNext == MainLoadOk \/ MainLoadErr

LoadSpec == LoadInit /\ [][LoadNext]_vars

(***************************************************************************)
(* The source data as a graph: the direct-dependency edges of a package.    *)
(***************************************************************************)
Range(seq) == {seq[i] : i \in 1..Len(seq)}

source_deps(p) ==
  IF test_repo_mode = "test"
  THEN (IF p \in DOMAIN graph_raw THEN graph_raw[p] ELSE <<>>)
  ELSE (IF p \in DOMAIN registry THEN dep_names(registry[p]) ELSE <<>>)

Successors(S) == UNION {Range(source_deps(p)) : p \in S}

\* packages at most k edges from the packages of S
RECURSIVE Within(_, _)
Within(S, k) == IF k = 0 THEN S ELSE Within(S \cup Successors(S), k - 1)

\* packages reachable from the packages of S
RECURSIVE Reachable(_)
Reachable(S) ==
  IF Successors(S) \subseteq S THEN S ELSE Reachable(S \cup Successors(S))

\* p lies on a cycle of direct-dependency edges
OnCycle(p) == p \in Reachable(Range(source_deps(p)))

BuildOver == pc # "build"
TestMode == test_repo_mode = "test"
RemoteMode == test_repo_mode = "remote"
SkipPending == pc = "build" /\ stack # <<>> /\ Top(stack).node \in visited
ExpandPending == pc = "build" /\ stack # <<>> /\ Top(stack).node \notin visited

(***************************************************************************)
(* C1: with no depth bound, the keys of the GraphStore build_test_graph     *)
(* returns are exactly the packages reachable from the root over            *)
(* direct-dependency edges, the root included.                              *)
(***************************************************************************)
C1_KeysAreReachableSet ==
  (TestMode /\ max_depth = {} /\ BuildOver)
    => DOMAIN graph = Reachable({name})

\* an unbounded test build has ended on a map with a diamond or a cycle
\* (a package named by two parents) and with a key that is not reachable
C1_Witness ==
  /\ TestMode /\ max_depth = {} /\ BuildOver
  /\ Cardinality(DOMAIN graph) >= 3
  /\ \E p \in DOMAIN graph :
       Cardinality({q \in DOMAIN graph : p \in Range(graph[q])}) >= 2
  /\ DOMAIN graph_raw \ DOMAIN graph # {}

(***************************************************************************)
(* C2: in any build each package name is expanded at most once: at most one *)
(* dependency resolution and at most one GraphStore write per name; a       *)
(* popped entry whose name is already visited is discarded without lookup,  *)
(* request, write or push.                                                  *)
(***************************************************************************)
C2_ExpandedAtMostOnce ==
  /\ [](\A p \in Packages : resolved[p] <= 1 /\ inserted[p] <= 1)
  /\ [][SkipPending =>
          /\ stack' = Pop(stack)
          /\ UNCHANGED <<graph, visited, latest_cache, deps_cache, history>>]_vars

\* a package was expanded once and a second stack entry naming it is on top
C2_Witness ==
  /\ SkipPending
  /\ resolved[Top(stack).node] = 1
  /\ inserted[Top(stack).node] = 1
  /\ Len(stack) >= 2

(***************************************************************************)
(* C3: the build loop ends on every finite graph, self-loops and mutual     *)
(* cycles included, with or without a depth bound: every run leaves the     *)
(* loop, and it leaves it with an empty work stack unless a dependency      *)
(* listing failed; after a build without depth bound in which every lookup  *)
(* succeeded, every reachable package on a cycle has an entry, as have both *)
(* packages of a cycle root -> b -> root under any bound of at least 1.     *)
(***************************************************************************)
BuildSucceeded == pc = "print" \/ exit_code = {0}
NoLookupError == \A p \in Packages : lookup_errors[p] = 0

C4_AllWithinBoundPresent ==
  (TestMode /\ BuildOver)
    => \A d \in max_depth : Within({name}, d) \subseteq DOMAIN graph

(***************************************************************************)
(* C5: with a depth bound d the children of a package popped at depth >= d  *)
(* are not pushed, every stack entry has depth <= d, and every GraphStore   *)
(* key is at most d edges from the root.                                    *)
(***************************************************************************)
C5_BoundHonoured ==
  /\ [](\A d \in max_depth :
          /\ \A i \in 1..Len(stack) : stack[i].depth <= d
          /\ DOMAIN graph \subseteq Within({name}, d))
  /\ [][(ExpandPending /\ \E d \in max_depth : Top(stack).depth >= d)
          => stack' = Pop(stack)]_vars

\* the chain root -> b -> c -> e built with bound 1: entries for the root
\* and b only, b's list still names c
C5_Witness ==
  /\ BuildOver /\ max_depth = {1} /\ exit_code # {1}
  /\ Cardinality(DOMAIN graph) = 2
  /\ \E b \in DOMAIN graph \ {name} : \E c \in Range(graph[b]) :
       /\ graph[name] = <<b>>
       /\ c \notin DOMAIN graph
       /\ Range(source_deps(c)) \ {name, b, c} # {}

(***************************************************************************)
(* C6: every key n of the GraphStore built in test mode records the full    *)
(* ordered dependency list of n in the pre-loaded map, the empty sequence   *)
(* if n is not a key of the map, whatever the depth n was popped at.        *)
(***************************************************************************)
C6_FullListRecorded ==
  TestMode =>
    \A n \in DOMAIN graph :
      graph[n] = IF n \in DOMAIN graph_raw THEN graph_raw[n] ELSE <<>>

\* a bounded test build has ended with an entry, recorded at the bound,
\* whose list is not empty, and with an entry for a name absent from the map
C6_Witness ==
  /\ TestMode /\ BuildOver
  /\ \E d \in max_depth :
       d >= 1 /\ \E n \in DOMAIN graph \ Within({name}, d - 1) : graph[n] # <<>>
  /\ \E n \in DOMAIN graph : n \notin DOMAIN graph_raw

(***************************************************************************)
(* C7: in remote mode a failed dependency-listing fetch makes               *)
(* build_real_graph return the error at once, with no further pop or        *)
(* request, and main exits with a non-zero status without printing the      *)
(* header or the tree.                                                      *)
(***************************************************************************)
\* the step resolves a package's dependencies and gets Err: no insert follows
FetchFails == resolved' # resolved /\ inserted' = inserted

C7_ListingFailureAborts ==
  /\ [][FetchFails =>
          /\ pc' = "build_err"
          /\ stack' = Pop(stack)
          /\ UNCHANGED <<graph, latest_cache, deps_cache, versions_requests,
                         lookup_errors, output>>]_vars
  /\ [][pc = "build_err" =>
          /\ pc' = "exited" /\ exit_code' = {1}
          /\ UNCHANGED <<build, history, stdout>>]_vars
  /\ [][pc # "exited"]_vars
  /\ []((pc = "build_err" \/ exit_code = {1}) => stdout = <<>>)
  /\ []((\E p \in Packages : resolved[p] > inserted[p]) => pc \in {"build_err", "exited"})

\* a listing failed after part of the graph was built and with entries left
\* on the stack; the process has exited 1 and printed nothing
C7_Witness ==
  /\ RemoteMode /\ pc = "exited" /\ exit_code = {1}
  /\ stack # <<>> /\ DOMAIN graph # {}
  /\ \E p \in visited : p \notin DOMAIN graph
  /\ stdout = <<>>

(***************************************************************************)
(* C8: in remote mode a failed version lookup for a dependency of the       *)
(* package being expanded does not abort the build: a warning is printed,   *)
(* that dependency is not pushed and stays in the parent's recorded list,   *)
(* every sibling whose lookup succeeds is pushed, and the build errors out  *)
(* only when a dependency-listing fetch fails.                              *)
(***************************************************************************)
\* the step expands a package below the depth bound in remote mode
ExpandsBelowBound ==
  /\ RemoteMode /\ ExpandPending
  /\ inserted' # inserted
  /\ ~\E d \in max_depth : Top(stack).depth >= d

Pushed == SubSeq(stack', Len(stack), Len(stack'))
Warned == SubSeq(stderr', Len(stderr) + 1, Len(stderr'))

C8_LookupFailureIsLocal ==
  /\ [][ExpandsBelowBound =>
          LET node == Top(stack).node
              deps == dep_names(registry[node])
          IN /\ pc' = "build"
             /\ graph'[node] = deps
             /\ SubSeq(stack', 1, Len(stack) - 1) = Pop(stack)
             /\ Len(Pushed) + Len(Warned) = Len(deps)
             /\ \A i \in 1..Len(Warned) :
                  /\ Warned[i].kind = "warning"
                  /\ lookup_errors'[Warned[i].node] > lookup_errors[Warned[i].node]
             /\ \A dep \in Range(deps) :
                  /\ lookup_errors'[dep] > lookup_errors[dep]
                       => \E i \in 1..Len(Warned) : Warned[i].node = dep
                  /\ dep \in DOMAIN latest_cache'
                       <=> \E i \in 1..Len(Pushed) : Pushed[i].node = dep
             /\ \A i \in 1..Len(Pushed) :
                  /\ Pushed[i].depth = Top(stack).depth + 1
                  /\ Pushed[i].ver = latest_cache'[Pushed[i].node]]_vars
  /\ [](exit_code = {1} => \E p \in Packages : resolved[p] > inserted[p])

\* a build has succeeded although the lookup of one dependency failed: the
\* dependency is in its parent's list without an entry, a sibling was expanded
C8_Witness ==
  /\ RemoteMode /\ exit_code = {0}
  /\ \E q \in DOMAIN graph : \E dep \in Range(graph[q]) :
       /\ lookup_errors[dep] > 0
       /\ dep \notin DOMAIN graph
       /\ \E i \in 1..Len(stderr) : stderr[i] = [kind |-> "warning", node |-> dep]
       /\ \E sib \in Range(graph[q]) \ {dep, name} : sib \in DOMAIN graph

(***************************************************************************)
(* C9: in a remote build a package for which some version lookup returned   *)
(* an error has no GraphStore entry of its own at the end of the build.     *)
(***************************************************************************)
C9_FailedLookupNeverExpanded ==
  (RemoteMode /\ BuildOver)
    => \A p \in Packages : lookup_errors[p] > 0 => p \notin DOMAIN graph

(***************************************************************************)
(* C9 as amended: a package is pushed, and so expanded, only when it is the *)
(* root or a version lookup of it has succeeded; a package other than the   *)
(* root all of whose lookups failed has no GraphStore entry.                *)
(***************************************************************************)
C9_ExpandedOnlyIfResolved ==
  RemoteMode =>
    /\ \A i \in 1..Len(stack) :
         stack[i].node = name \/ stack[i].node \in DOMAIN latest_cache
    /\ \A p \in DOMAIN graph : p = name \/ p \in DOMAIN latest_cache

\* the lookup of a package failed from two parents; the build has succeeded
\* and the package has no entry
C9_Witness ==
  /\ RemoteMode /\ exit_code = {0}
  /\ \E p \in Packages :
       /\ lookup_errors[p] >= 2
       /\ p \notin DOMAIN latest_cache
       /\ p \notin DOMAIN graph

(***************************************************************************)
(* C10: during one remote build at most one version-listing request and at  *)
(* most one dependency-listing request are sent per package.                *)
(***************************************************************************)
C10_OneRequestPerPackage ==
  \A p \in Packages : versions_requests[p] <= 1 /\ deps_requests[p] <= 1

(***************************************************************************)
(* C10 as amended: at most one dependency-listing request is sent per       *)
(* package; every version-listing request of a package either fails or      *)
(* fills the cache, at most one fills it, and no request is sent for a      *)
(* package once its version is cached; a failed lookup is not cached and    *)
(* is repeated when another edge names the package.                         *)
(***************************************************************************)
C10_OneSuccessfulRequestPerPackage ==
  /\ [](\A p \in Packages :
          /\ deps_requests[p] <= 1
          /\ versions_requests[p] =
               lookup_errors[p] + (IF p \in DOMAIN latest_cache THEN 1 ELSE 0))
  /\ [][\A p \in DOMAIN latest_cache :
          versions_requests'[p] = versions_requests[p]]_vars

\* the first lookup of a package failed, a second request for it succeeded
\* and the package was then expanded with one dependency-listing request
C10_Witness ==
  /\ RemoteMode /\ BuildOver
  /\ \E p \in DOMAIN latest_cache :
       /\ versions_requests[p] = 2
       /\ lookup_errors[p] = 1
       /\ deps_requests[p] = 1

(***************************************************************************)
(* The printed tree: line i of stdout.                                      *)
(***************************************************************************)
Lines == 1..Len(stdout)
IsNodeLine(i) == stdout[i].kind = "node"
LineDepth(i) == Len(stdout[i].prefix)
PrintedNames == {stdout[i].node : i \in {j \in Lines : IsNodeLine(j)}}

\* the name of node line k was printed by an earlier node line
Reencounter(k) ==
  /\ IsNodeLine(k)
  /\ \E j \in 1..(k - 1) : IsNodeLine(j) /\ stdout[j].node = stdout[k].node

\* node line k is immediately followed by its cycle annotation
Annotated(k) ==
  /\ k + 1 \in Lines
  /\ stdout[k + 1] = cycle_line(stdout[k].prefix, stdout[k].node)

\* line k is immediately followed by the depth-limit placeholder
Truncated(k) ==
  /\ k + 1 \in Lines
  /\ stdout[k + 1] = limit_line(stdout[k].prefix, stdout[k].node)

\* print_ascii_tree has run call by call and main has returned
RenderOver == pc = "exited" /\ exit_code = {0}

(***************************************************************************)
(* C11: the seen set is exactly the set of names printed so far, so a name  *)
(* enters it when it is first printed; every later node line of a name is   *)
(* immediately followed by the cycle annotation and by no line below it;    *)
(* the GraphStore A -> B -> A printed from A without a depth bound gives    *)
(* A, B, A, cycle annotation.                                               *)
(***************************************************************************)
C11_ReencounterIsAnnotated ==
  /\ seen_set = PrintedNames
  /\ \A k \in Lines :
       Reencounter(k) =>
         /\ Annotated(k)
         /\ (k + 2 \in Lines => LineDepth(k + 2) <= LineDepth(k))
  /\ (/\ RenderOver
      /\ name = "A" /\ max_depth = {}
      /\ children_of(graph, "A") = <<"B">>
      /\ children_of(graph, "B") = <<"A">>)
     => /\ Len(stdout) = 5
        /\ stdout[2] = node_line(<<>>, TRUE, "A")
        /\ stdout[3] = node_line(<<"    ">>, TRUE, "B")
        /\ stdout[4] = node_line(<<"    ", "    ">>, TRUE, "A")
        /\ stdout[5] = cycle_line(<<"    ", "    ">>, "A")

\* the walk is over; a name with children was met again through a cycle and
\* another one through a diamond, and lines follow each annotation
C11_Witness ==
  /\ RenderOver
  /\ \E k \in Lines :
       /\ Reencounter(k) /\ k + 2 \in Lines
       /\ children_of(graph, stdout[k].node) # <<>>
       /\ \E j \in 1..(k - 1) :
            /\ IsNodeLine(j) /\ stdout[j].node = stdout[k].node
            /\ LineDepth(j) >= LineDepth(k)
  /\ \E k \in Lines :
       /\ Reencounter(k)
       /\ \E j \in 1..(k - 1) :
            /\ IsNodeLine(j) /\ stdout[j].node = stdout[k].node
            /\ LineDepth(j) < LineDepth(k)
            /\ \A m \in (j + 1)..k : LineDepth(m) > LineDepth(j)

\* node line k is followed by the line of its first child: the loop over the
\* children of its name has run
Expanded(k) ==
  /\ IsNodeLine(k)
  /\ k + 1 \in Lines
  /\ IsNodeLine(k + 1)
  /\ LineDepth(k + 1) = LineDepth(k) + 1

(***************************************************************************)
(* C12: print_ascii_tree returns for every GraphStore, root and depth       *)
(* bound, without a bound and over cycles too, and in the printed tree at   *)
(* most one node line of a name has the name's children below it.           *)
(***************************************************************************)
C12_PrinterTerminates ==
  /\ <>(pc = "exited" /\ frames = <<>>)
  /\ [](\A j, k \in Lines :
          (Expanded(j) /\ Expanded(k) /\ stdout[j].node = stdout[k].node) => j = k)

\* a walk without a depth bound is over; it printed every name, came back to
\* an ancestor and met an expanded name again outside its subtree
C12_Witness ==
  /\ RenderOver
  /\ max_depth = {}
  /\ PrintedNames = Nodes
  /\ \E j, k \in Lines :
       /\ j < k /\ Expanded(j) /\ Reencounter(k)
       /\ stdout[j].node = stdout[k].node
       /\ \A m \in (j + 1)..k : LineDepth(m) > LineDepth(j)
  /\ \E j, k \in Lines :
       /\ j < k /\ Expanded(j) /\ Reencounter(k)
       /\ stdout[j].node = stdout[k].node
       /\ LineDepth(k) <= LineDepth(j)

\* node line k is printed at the depth of the bound
AtBound(k) == IsNodeLine(k) /\ max_depth = {LineDepth(k)}

(***************************************************************************)
(* C13: every node line printed at the depth of the bound for a name with   *)
(* at least one recorded child is followed by the depth-limit placeholder,  *)
(* whether or not the name was printed before (directly, or after the       *)
(* cycle annotation of the line), and no line below it follows.             *)
(***************************************************************************)
C13_PlaceholderWhetherSeenOrNot ==
  \A k \in Lines :
    (AtBound(k) /\ children_of(graph, stdout[k].node) # <<>>)
      => /\ \/ Truncated(k)
            \/ /\ Annotated(k)
               /\ k + 2 \in Lines
               /\ stdout[k + 2] = limit_line(stdout[k].prefix, stdout[k].node)
         /\ \A m \in Lines : m > k /\ IsNodeLine(m) /\ LineDepth(m) > LineDepth(k)
              => \E n \in (k + 1)..(m - 1) :
                   IsNodeLine(n) /\ LineDepth(n) <= LineDepth(k)

(***************************************************************************)
(* C14: a name truncated at the bound and met again later at a depth below  *)
(* the bound is printed in full there: no cycle annotation, its children    *)
(* on the lines below it.                                                   *)
(***************************************************************************)
C14_TruncatedRendersFullyLater ==
  \A j, k \in Lines :
    (/\ j < k
     /\ AtBound(j) /\ Truncated(j)
     /\ IsNodeLine(k) /\ stdout[k].node = stdout[j].node
     /\ LineDepth(k) < LineDepth(j))
      => ~Annotated(k) /\ Expanded(k)

(***************************************************************************)
(* C15: with a bound d no node line is printed at a depth greater than d,   *)
(* whatever the GraphStore holds below; a name first printed at depth d is  *)
(* followed by exactly one placeholder when its recorded child list is      *)
(* non-empty and by none when it is empty or absent; with d = 0 and root A  *)
(* with children B and C the output is A's line and one placeholder.        *)
(***************************************************************************)
C15_NothingBelowBound ==
  /\ \A k \in Lines : \A d \in max_depth : IsNodeLine(k) => LineDepth(k) <= d
  /\ \A k \in Lines :
       (AtBound(k) /\ ~Reencounter(k)) =>
         IF children_of(graph, stdout[k].node) # <<>>
         THEN /\ Truncated(k)
              /\ k + 2 \in Lines => stdout[k + 2].kind # "limit"
         ELSE k + 1 \in Lines => stdout[k + 1].kind # "limit"
  /\ (/\ RenderOver
      /\ name = "A" /\ max_depth = {0}
      /\ children_of(graph, "A") = <<"B", "C">>)
     => /\ Len(stdout) = 3
        /\ stdout[2] = node_line(<<>>, TRUE, "A")
        /\ stdout[3] = limit_line(<<>>, "A")

\* a walk with bound 1 is over: a child of the root was cut although the
\* GraphStore holds its children and their children, and another child of
\* the root without children got no placeholder
C15_Witness ==
  /\ RenderOver
  /\ max_depth = {1}
  /\ \E k \in Lines :
       /\ AtBound(k) /\ Truncated(k)
       /\ \E c \in Range(children_of(graph, stdout[k].node)) :
            children_of(graph, c) # <<>>
  /\ \E k \in Lines :
       /\ AtBound(k) /\ ~Reencounter(k)
       /\ children_of(graph, stdout[k].node) = <<>>
       /\ k + 1 \in Lines

(***************************************************************************)
(* The test file line by line.                                              *)
(***************************************************************************)
BlankLine(i) == \A j \in 1..Len(raw[i]) : raw[i][j] = " "
HasColon(i) == \E j \in 1..Len(raw[i]) : raw[i][j] = ":"
BadLine(i) == ~BlankLine(i) /\ ~HasColon(i)
\* the key a line with a colon is stored under: what precedes its first
\* colon, without the white space around it
KeyOf(i) ==
  LET c == CHOOSE j \in 1..Len(raw[i]) :
             raw[i][j] = ":" /\ \A k \in 1..(j - 1) : raw[i][k] # ":"
  IN trim(SubSeq(raw[i], 1, c - 1))

(***************************************************************************)
(* C16: once load_test_graph has returned: if some non-blank line has no    *)
(* colon the program has reported one format error, which cites the         *)
(* position of the first such line counted from 1 over all lines, has no    *)
(* map and has exited with 1; otherwise a map is returned, and its keys     *)
(* are exactly the keys of the lines with a colon, so blank lines neither   *)
(* fail nor add an entry.                                                   *)
(***************************************************************************)
C16_FormatErrorAtFirstBadLine ==
  pc # "load" =>
    IF \E i \in 1..Len(raw) : BadLine(i)
    THEN LET first == CHOOSE i \in 1..Len(raw) :
                        BadLine(i) /\ \A j \in 1..(i - 1) : ~BadLine(j)
         IN /\ pc = "exited" /\ exit_code = {1}
            /\ graph_raw = <<>> /\ stack = <<>>
            /\ Len(stderr) = 1
            /\ stderr[1].kind = "format"
            /\ stderr[1].at = first
    ELSE /\ pc = "build" /\ exit_code = {}
         /\ stderr = <<>>
         /\ DOMAIN graph_raw = {KeyOf(i) : i \in {j \in 1..Len(raw) : HasColon(j)}}

\* the first line is blank but not empty, the second has no colon: the
\* error cites line 2
C16_Witness ==
  /\ pc = "exited"
  /\ Len(raw) = 2
  /\ raw[1] # <<>> /\ BlankLine(1)
  /\ BadLine(2)
  /\ Len(stderr) = 1 /\ stderr[1].at = 2

(***************************************************************************)
(* C17: in a test-mode run, building and printing with the same bound d,    *)
(* every package printed at depth d that has at least one direct            *)
(* dependency in the pre-loaded map is followed by the placeholder or by    *)
(* the cycle annotation: none is shown as a bare leaf.                      *)
(***************************************************************************)
C17_NoBareLeafAtBound ==
  TestMode =>
    \A k \in Lines :
      (AtBound(k) /\ source_deps(stdout[k].node) # <<>>)
        => Truncated(k) \/ Annotated(k)

\* the node line above node line k that is one level up and nearest to it
LinesAbove(k) ==
  {j \in 1..(k - 1) : IsNodeLine(j) /\ LineDepth(j) = LineDepth(k) - 1}
HasParentLine(k) == LinesAbove(k) # {}
ParentLine(k) == CHOOSE j \in LinesAbove(k) : \A m \in LinesAbove(k) : m <= j
ChildLines(j) ==
  {k \in Lines : k > j /\ IsNodeLine(k) /\ HasParentLine(k) /\ ParentLine(k) = j}
\* the position of child line k among the child lines of j
ChildRank(j, k) == Cardinality({m \in ChildLines(j) : m <= k})
\* node line j is the first of its name and above the depth bound
OpensChildren(j) ==
  /\ IsNodeLine(j) /\ ~Reencounter(j)
  /\ \A d \in max_depth : LineDepth(j) < d

(***************************************************************************)
(* C18: the finished output is the pre-order of the tree: the root line     *)
(* comes first, with an empty prefix and the last-child connector; every    *)
(* other node line has a parent line above it, whose prefix it extends by   *)
(* blank padding if the parent has the last-child connector and by the      *)
(* vertical connector otherwise; the child lines of a node line that opens  *)
(* its children name the recorded children in their recorded order, the     *)
(* final one with the last-child connector and the others with the          *)
(* not-last connector; other node lines have no child lines.                *)
(***************************************************************************)
C18_PreOrderWithConnectors ==
  RenderOver =>
    /\ stdout[2] = node_line(<<>>, TRUE, name)
    /\ \A k \in Lines :
         (IsNodeLine(k) /\ k # 2) =>
           /\ HasParentLine(k)
           /\ \A m \in (ParentLine(k) + 1)..(k - 1) :
                IsNodeLine(m) => LineDepth(m) >= LineDepth(k)
           /\ stdout[k].prefix =
                Append(stdout[ParentLine(k)].prefix,
                       IF stdout[ParentLine(k)].connector = "+-- "
                       THEN "    " ELSE "|   ")
    /\ \A j \in Lines :
         IsNodeLine(j) =>
           LET children == IF OpensChildren(j)
                           THEN children_of(graph, stdout[j].node) ELSE <<>>
           IN /\ Cardinality(ChildLines(j)) = Len(children)
              /\ \A k \in ChildLines(j) :
                   /\ stdout[k].node = children[ChildRank(j, k)]
                   /\ stdout[k].connector =
                        IF ChildRank(j, k) = Len(children) THEN "+-- " ELSE "|-- "

\* a finished walk in which a child that is not the last one and a child
\* that is the last one both have children
C18_Witness ==
  /\ RenderOver
  /\ \E j, k \in Lines :
       /\ IsNodeLine(j) /\ IsNodeLine(k)
       /\ stdout[j].prefix = <<"    ", "|   ">>
       /\ stdout[k].prefix = <<"    ", "    ">>
       /\ stdout[j].node # stdout[k].node

\* the step is a call of fetch_dependencies_cached for package p
DepsCall(p) == resolved'[p] = resolved[p] + 1

(***************************************************************************)
(* C19: in a remote build fetch_dependencies_cached is called at most once  *)
(* per package name and every call sends its request, so none is answered   *)
(* from the cache; the cache holds at most one key per name, one for each   *)
(* call that succeeded; every call finds its key absent, and a call that    *)
(* succeeds adds that key and no other.                                     *)
(***************************************************************************)
C19_DepsCacheNeverHits ==
  /\ [](RemoteMode =>
          /\ \A p \in Packages : resolved[p] <= 1 /\ deps_requests[p] = resolved[p]
          /\ \A j, k \in DOMAIN deps_cache : j[1] = k[1] => j = k
          /\ {k[1] : k \in DOMAIN deps_cache} = {p \in Packages : inserted[p] >= 1})
  /\ [][\A p \in Packages :
          (RemoteMode /\ DepsCall(p)) =>
            /\ stack # <<>> /\ Top(stack).node = p
            /\ <<p, Top(stack).ver>> \notin DOMAIN deps_cache
            /\ DOMAIN deps_cache' =
                 IF inserted'[p] = inserted[p] + 1
                 THEN DOMAIN deps_cache \cup {<<p, Top(stack).ver>>}
                 ELSE DOMAIN deps_cache]_vars

\* a remote build from version 1 of the root has succeeded; the root is
\* also a dependency, whose latest version is another one, and a second
\* package is named twice: the cache holds one key for each of them
C19_Witness ==
  /\ RemoteMode /\ exit_code = {0}
  /\ version # registry_latest(name)
  /\ \E q \in DOMAIN graph : name \in Range(graph[q])
  /\ name \in DOMAIN latest_cache
  /\ \E p \in DOMAIN graph \ {name} :
       /\ Cardinality({<<q, i>> \in (DOMAIN graph) \X (1..MaxRegistryEdges) :
                         i <= Len(graph[q]) /\ graph[q][i] = p}) >= 2
       /\ <<p, registry_latest(p)>> \in DOMAIN deps_cache
  /\ <<name, version>> \in DOMAIN deps_cache
  /\ Cardinality(DOMAIN deps_cache) = 2

\* the names the GraphStore's edges lead to from the names of S
RECURSIVE StoredReach(_)
StoredReach(S) ==
  LET next == S \cup UNION {Range(children_of(graph, p)) : p \in S}
  IN IF next = S THEN S ELSE StoredReach(next)

(***************************************************************************)
(* C20: once a walk without a depth bound is over, the printed names are    *)
(* the names reachable from the root along the GraphStore's edges; each     *)
(* printed name has exactly one node line without annotation, the first,    *)
(* below which its children are printed, and every other node line of the   *)
(* name carries the cycle annotation; the seen set is the set of printed    *)
(* names.                                                                   *)
(***************************************************************************)
C20_UnboundedWalkPrintsAllReachable ==
  (RenderOver /\ max_depth = {}) =>
    /\ StoredReach({name}) \subseteq PrintedNames
    /\ \A p \in PrintedNames :
         LET occurrences == {k \in Lines : IsNodeLine(k) /\ stdout[k].node = p}
             plain == {k \in occurrences : ~Annotated(k)}
         IN /\ Cardinality(plain) = 1
            /\ \A k \in plain :
                 /\ \A m \in occurrences : k <= m
                 /\ Cardinality(ChildLines(k)) = Len(children_of(graph, p))
            /\ \A k \in occurrences \ plain : ChildLines(k) = {}
    /\ \A k \in Lines : stdout[k].kind # "limit"
    /\ seen_set = PrintedNames

\* a walk without a bound is over: all three names are reachable and
\* printed, one of them three times
C20_Witness ==
  /\ RenderOver /\ max_depth = {}
  /\ StoredReach({name}) = Nodes
  /\ \E p \in PrintedNames :
       Cardinality({k \in Lines : IsNodeLine(k) /\ stdout[k].node = p}) >= 3

====
